---- MODULE Spec2Model ----
(***************************************************************************)
(* BLT-MCP (src/src/index.ts): a protocol adapter that turns MCP requests  *)
(* (list/read resources, list/call tools, list/get prompts) into calls of  *)
(* the BLT REST API.  The model follows the source handler by handler.     *)
(*                                                                         *)
(* Strings whose characters the code inspects (identifiers, URIs, argument *)
(* values, endpoint paths) are sequences of one-character strings, so that *)
(* trim(), the identifier regex and the URI regex are computed, not        *)
(* assumed.  Messages are sequences of string pieces (their concatenation  *)
(* is the JavaScript string).                                              *)
(***************************************************************************)
EXTENDS Integers, Sequences, FiniteSets, Bags, TLC

\* ------------------------------------------------------------------------
\* Characters
\* ------------------------------------------------------------------------

Lower ==
  {"a","b","c","d","e","f","g","h","i","j","k","l","m",
   "n","o","p","q","r","s","t","u","v","w","x","y","z"}

Upper ==
  {"A","B","C","D","E","F","G","H","I","J","K","L","M",
   "N","O","P","Q","R","S","T","U","V","W","X","Y","Z"}

Digits == {"0","1","2","3","4","5","6","7","8","9"}

\* The character class [a-zA-Z0-9_-] of assertSafeId.
SafeChars == Lower \cup Upper \cup Digits \cup {"_", "-"}

\* What String.prototype.trim() strips (the members the inputs use).
WhiteSpace == {" ", "\t", "\n"}

\* What the regex "." does not match.
LineTerminators == {"\n"}

RECURSIVE TrimStart(_)
TrimStart(s) ==
  IF s # <<>> /\ Head(s) \in WhiteSpace THEN TrimStart(Tail(s)) ELSE s

RECURSIVE TrimEnd(_)
TrimEnd(s) ==
  IF s # <<>> /\ s[Len(s)] \in WhiteSpace
    THEN TrimEnd(SubSeq(s, 1, Len(s) - 1))
    ELSE s

\* String.prototype.trim()
Trim(s) == TrimEnd(TrimStart(s))

\* /^[a-zA-Z0-9_-]+$/.test(s)
MatchesSafeIdRegex(s) == Len(s) > 0 /\ \A i \in 1..Len(s) : s[i] \in SafeChars

IsPrefix(p, s) == Len(p) <= Len(s) /\ SubSeq(s, 1, Len(p)) = p

\* ------------------------------------------------------------------------
\* JavaScript values of request arguments (one record shape for all)
\* ------------------------------------------------------------------------

Undefined == [t |-> "undefined", s |-> <<>>, k |-> "", v |-> 0]
Null      == [t |-> "null",      s |-> <<>>, k |-> "", v |-> 0]
Str(chars) == [t |-> "string",   s |-> chars, k |-> "", v |-> 0]
Num(n)    == [t |-> "number",    s |-> <<>>, k |-> "finite", v |-> n]
NaN       == [t |-> "number",    s |-> <<>>, k |-> "nan", v |-> 0]
Infinity  == [t |-> "number",    s |-> <<>>, k |-> "inf", v |-> 0]

\* args[field] of a mapping: undefined for a key the mapping lacks.
Get(args, field) == IF field \in DOMAIN args THEN args[field] ELSE Undefined

\* ------------------------------------------------------------------------
\* Errors: the class (error.name) and the message
\* ------------------------------------------------------------------------

Err(kind, msg, status) == [kind |-> kind, msg |-> msg, status |-> status]

ValidationError(msg) == Err("ValidationError", msg, 0)
GenericError(msg)    == Err("Error", msg, 0)

StatusStr(s) ==
  CASE s = 404 -> "404"
    [] s = 500 -> "500"
    [] OTHER   -> "?"

StatusText(s) ==
  CASE s = 404 -> "Not Found"
    [] s = 500 -> "Internal Server Error"
    [] OTHER   -> ""

REQUEST_TIMEOUT_MS == 10000

ApiHttpError(status, statusText, endpoint) ==
  Err("ApiHttpError",
      <<"HTTP ", StatusStr(status), " ", statusText, " - ">> \o endpoint,
      status)

\* cause: the message of the rejected fetch
ApiNetworkError(endpoint, cause) ==
  Err("ApiNetworkError",
      <<"Network failure reaching ">> \o endpoint \o <<": ">> \o cause, 0)

ApiTimeoutError(endpoint) ==
  Err("ApiTimeoutError",
      <<"Request to ">> \o endpoint \o <<" timed out after ", "10000", "ms">>, 0)

\* A value a computation returns, or the error it throws.
Ok(val)     == [ok |-> TRUE,  val |-> val, err |-> Err("", <<>>, 0)]
Throw(err)  == [ok |-> FALSE, val |-> Undefined, err |-> err]

\* ------------------------------------------------------------------------
\* Validation helpers
\* ------------------------------------------------------------------------

\* An assertSafeId that trims its argument before testing and returning it.
assertSafeId_Normalizing(id, fieldName) ==
  IF id.t # "string" \/ Trim(id.s) = <<>>
    THEN Throw(ValidationError(<<fieldName, " must be a non-empty string">>))
  ELSE IF ~MatchesSafeIdRegex(Trim(id.s))
    THEN Throw(ValidationError(<<fieldName,
           " contains invalid characters. Only alphanumeric, hyphen, and underscore are allowed.">>))
  ELSE Ok(Str(Trim(id.s)))

assertSafeId(id, fieldName) ==
  IF id.t # "string" \/ Trim(id.s) = <<>>
    THEN Throw(ValidationError(<<fieldName, " must be a non-empty string">>))
  ELSE IF ~MatchesSafeIdRegex(id.s)
    THEN Throw(ValidationError(<<fieldName,
           " contains invalid characters. Only alphanumeric, hyphen, and underscore are allowed.">>))
  ELSE Ok(id)

assertRequiredString(args, field) ==
  LET value == Get(args, field) IN
  IF value.t \in {"undefined", "null"}
    THEN Throw(ValidationError(<<"Missing required argument: \"", field, "\"">>))
  ELSE IF value.t # "string" \/ Trim(value.s) = <<>>
    THEN Throw(ValidationError(<<"\"", field, "\" must be a non-empty string">>))
  ELSE Ok(Str(Trim(value.s)))

\* Number(value) for the argument values the model feeds: a number is itself;
\* a string is trimmed, "" is 0, an optionally signed run of digits is its
\* decimal value, [+-]Infinity is infinite, and anything else is NaN.
DigitVal(c) ==
  CASE c = "0" -> 0 [] c = "1" -> 1 [] c = "2" -> 2 [] c = "3" -> 3
    [] c = "4" -> 4 [] c = "5" -> 5 [] c = "6" -> 6 [] c = "7" -> 7
    [] c = "8" -> 8 [] OTHER -> 9

RECURSIVE DecimalVal(_)
DecimalVal(ds) ==
  IF ds = <<>> THEN 0
  ELSE 10 * DecimalVal(SubSeq(ds, 1, Len(ds) - 1)) + DigitVal(ds[Len(ds)])

AllDigits(ds) == ds # <<>> /\ \A i \in 1..Len(ds) : ds[i] \in Digits

s_Infinity == <<"I","n","f","i","n","i","t","y">>

StringToNumber(chars) ==
  LET t    == Trim(chars)
      neg  == t # <<>> /\ Head(t) = "-"
      sgn  == t # <<>> /\ Head(t) \in {"-", "+"}
      body == IF sgn THEN Tail(t) ELSE t
  IN  IF t = <<>> THEN Num(0)
      ELSE IF body = s_Infinity
        THEN [Infinity EXCEPT !.k = IF neg THEN "-inf" ELSE "inf"]
      ELSE IF AllDigits(body)
        THEN Num(IF neg THEN 0 - DecimalVal(body) ELSE DecimalVal(body))
      ELSE NaN

ToNumber(value) ==
  IF value.t = "number" THEN value
  ELSE IF value.t = "string" THEN StringToNumber(value.s)
  ELSE NaN

assertRequiredNumber(args, field) ==
  LET value == Get(args, field)
      num   == ToNumber(value)
  IN  IF value.t \in {"undefined", "null"}
        THEN Throw(ValidationError(<<"Missing required argument: \"", field, "\"">>))
      ELSE IF num.k = "nan"
        THEN Throw(ValidationError(<<"\"", field, "\" must be a valid number">>))
      ELSE Ok(num)

assertOptionalString(args, field) ==
  LET value == Get(args, field) IN
  IF value.t \in {"undefined", "null"} THEN Ok(Undefined)
  ELSE IF value.t # "string"
    THEN Throw(ValidationError(<<"\"", field, "\" must be a string">>))
  ELSE IF Trim(value.s) = <<>> THEN Ok(Undefined)
  ELSE Ok(Str(Trim(value.s)))

\* points <= 0 on a number that is not NaN
NotPositive(num) == num.k = "-inf" \/ (num.k = "finite" /\ num.v <= 0)

\* ------------------------------------------------------------------------
\* API client: the request makeApiRequest hands to fetch
\* ------------------------------------------------------------------------

DEFAULT_API_BASE == "https://blt.owasp.org/api"

\* process.env.X || default
BLT_API_BASE(env) == IF env.base # "" THEN env.base ELSE DEFAULT_API_BASE
BLT_API_KEY(env)  == IF env.key # "" THEN env.key ELSE ""

NoBody == [present |-> FALSE, json |-> [f \in {} |-> Undefined]]
Body(obj) == [present |-> TRUE, json |-> obj]

\* JSON.stringify of a body value: a number that is not finite becomes null.
JsonValue(value) ==
  IF value.t = "number" /\ value.k # "finite" THEN Null ELSE value

\* JSON.stringify(body)
JsonStringify(obj) == [f \in DOMAIN obj |-> JsonValue(obj[f])]

Headers_AlwaysBearer(cfg) ==
  [ContentType |-> <<"application/json">>, Accept |-> <<"application/json">>,
   Authorization |-> <<"Bearer ", cfg.key>>]

Headers(cfg) ==
  IF cfg.key # ""
    THEN [ContentType |-> <<"application/json">>, Accept |-> <<"application/json">>,
          Authorization |-> <<"Bearer ", cfg.key>>]
    ELSE [ContentType |-> <<"application/json">>, Accept |-> <<"application/json">>]

\* The fetch(url, options) of one makeApiRequest(endpoint, method, body).
FetchRequest(cfg, endpoint, method, body) ==
  [base     |-> cfg.base,
   endpoint |-> endpoint,
   method   |-> method,
   headers  |-> Headers(cfg),
   body     |-> IF body.present /\ method # "GET"
                  THEN Body(JsonStringify(body.json)) ELSE NoBody]

\* makeApiRequest without the AbortError test of its catch.
ClassifyFetchRejection_AllNetwork(endpoint, errName, errMsg) ==
  ApiNetworkError(endpoint, errMsg)

\* The catch of makeApiRequest: what a rejected fetch is rethrown as.
\* errName is the name of the rejection (AbortError when the signal aborted
\* the fetch, TypeError for a connection-level failure).
ClassifyFetchRejection(endpoint, errName, errMsg) ==
  IF errName = "AbortError" THEN ApiTimeoutError(endpoint)
  ELSE ApiNetworkError(endpoint, errMsg)

\* ------------------------------------------------------------------------
\* String literals of the source, as character sequences
\* ------------------------------------------------------------------------

s_scheme == <<"b","l","t",":","/","/">>
s_issues == <<"i","s","s","u","e","s">>
s_repos == <<"r","e","p","o","s">>
s_contributors == <<"c","o","n","t","r","i","b","u","t","o","r","s">>
s_workflows == <<"w","o","r","k","f","l","o","w","s">>
s_leaderboards == <<"l","e","a","d","e","r","b","o","a","r","d","s">>
s_rewards == <<"r","e","w","a","r","d","s">>
s_comments == <<"c","o","m","m","e","n","t","s">>
s_low == <<"l","o","w">>
s_medium == <<"m","e","d","i","u","m">>
s_high == <<"h","i","g","h">>
s_critical == <<"c","r","i","t","i","c","a","l">>
s_bug == <<"b","u","g">>
s_vulnerability == <<"v","u","l","n","e","r","a","b","i","l","i","t","y">>
s_feature == <<"f","e","a","t","u","r","e">>
s_other == <<"o","t","h","e","r">>
s_open == <<"o","p","e","n">>
s_in_progress == <<"i","n","_","p","r","o","g","r","e","s","s">>
s_resolved == <<"r","e","s","o","l","v","e","d">>
s_closed == <<"c","l","o","s","e","d">>
s_wont_fix == <<"w","o","n","t","_","f","i","x">>

Slash == <<"/">>

\* ------------------------------------------------------------------------
\* Resources
\* ------------------------------------------------------------------------

Resource(uri, name, description) ==
  [uri |-> uri, name |-> name, description |-> description,
   mimeType |-> "application/json"]

\* The manifest with a URI template among its entries.
ListResourcesResult_WithTemplate ==
  << Resource(s_scheme \o s_issues, "BLT Issues",
              "List all issues in the BLT system"),
     Resource(s_scheme \o s_issues \o <<"/","{","i","d","}">>, "BLT Issue",
              "Get a specific issue by ID") >>

\* ListResources handler: the manifest it returns.
ListResourcesResult ==
  << Resource(s_scheme \o s_issues, "BLT Issues",
              "List all issues in the BLT system"),
     Resource(s_scheme \o s_repos, "BLT Repositories",
              "List all repositories tracked in BLT"),
     Resource(s_scheme \o s_contributors, "BLT Contributors",
              "List all contributors in the BLT system"),
     Resource(s_scheme \o s_workflows, "BLT Workflows",
              "List all workflows in the BLT system"),
     Resource(s_scheme \o s_leaderboards, "BLT Leaderboards",
              "View leaderboard rankings and statistics"),
     Resource(s_scheme \o s_rewards, "BLT Rewards",
              "List all rewards and bacon points") >>

\* Position of the first "/" of s, 0 when it has none.
RECURSIVE FirstSlashFrom(_, _)
FirstSlashFrom(s, i) ==
  IF i > Len(s) THEN 0
  ELSE IF s[i] = "/" THEN i
  ELSE FirstSlashFrom(s, i + 1)

NoMatch == [match |-> FALSE, type |-> <<>>, hasId |-> FALSE, id |-> <<>>]

\* uri.match(/^blt:\/\/([^/]+)(?:\/(.+))?$/): [^/]+ takes everything up to
\* the first "/"; what follows that "/" must be one or more characters, none a
\* line terminator, up to the end of the string.
MatchUri(uri) ==
  IF ~IsPrefix(s_scheme, uri) THEN NoMatch
  ELSE
    LET rest == SubSeq(uri, Len(s_scheme) + 1, Len(uri))
        i    == FirstSlashFrom(rest, 1)
        tail == SubSeq(rest, i + 1, Len(rest))
    IN  IF i = 0
          THEN IF rest = <<>> THEN NoMatch
               ELSE [match |-> TRUE, type |-> rest, hasId |-> FALSE, id |-> <<>>]
        ELSE IF i = 1 \/ tail = <<>>
                  \/ \E j \in 1..Len(tail) : tail[j] \in LineTerminators
          THEN NoMatch
        ELSE [match |-> TRUE, type |-> SubSeq(rest, 1, i - 1),
              hasId |-> TRUE, id |-> tail]

\* The case of the switch with the id interpolated as it came.
EntityEndpoint_Unvalidated(type, hasId, rawResourceId, fieldName) ==
  IF hasId /\ rawResourceId # <<>>
    THEN Ok(Slash \o type \o Slash \o rawResourceId)
    ELSE Ok(Slash \o type)

\* One case of the switch for a type that takes an optional id.
EntityEndpoint(type, hasId, rawResourceId, fieldName) ==
  IF hasId /\ rawResourceId # <<>>
    THEN LET id == assertSafeId(Str(rawResourceId), fieldName)
         IN  IF id.ok THEN Ok(Slash \o type \o Slash \o id.val.s) ELSE id
    ELSE Ok(Slash \o type)

\* The switch of the ReadResource handler up to its makeApiRequest call: the
\* endpoint it requests, or the error it throws first.
ResourceEndpoint(resourceType, hasId, rawResourceId) ==
  CASE resourceType = s_issues ->
         EntityEndpoint(s_issues, hasId, rawResourceId, "issue id")
    [] resourceType = s_repos ->
         EntityEndpoint(s_repos, hasId, rawResourceId, "repo id")
    [] resourceType = s_contributors ->
         EntityEndpoint(s_contributors, hasId, rawResourceId, "contributor id")
    [] resourceType = s_workflows ->
         EntityEndpoint(s_workflows, hasId, rawResourceId, "workflow id")
    [] resourceType = s_leaderboards -> Ok(Slash \o s_leaderboards)
    [] resourceType = s_rewards -> Ok(Slash \o s_rewards)
    [] OTHER -> Throw(GenericError(<<"Unknown resource type: ">> \o resourceType))

\* A catch that rethrows what it caught.
ReadResourceWrap_Rethrow(uri, error) == error

\* The catch of the ReadResource handler.
ReadResourceWrap(uri, error) ==
  GenericError(<<"Failed to read resource ">> \o uri \o <<": ">> \o error.msg)

\* ------------------------------------------------------------------------
\* What a handler hands back: a result it returns or an error it throws
\* ------------------------------------------------------------------------

NoResult == [shape |-> "", isError |-> "absent", text |-> <<>>, uri |-> <<>>, list |-> <<>>]

Returned(result) == [thrown |-> FALSE, err |-> Err("", <<>>, 0), result |-> result]
Thrown(err)      == [thrown |-> TRUE,  err |-> err, result |-> NoResult]

\* JSON.stringify(data, null, 2) of a value the remote sent.
PrettyJson(data) == <<"JSON(", data, ")">>

\* { contents: [{ uri, mimeType: "application/json", text }] }
ResourceContents(uri, data) ==
  [NoResult EXCEPT !.shape = "contents", !.uri = uri, !.text = PrettyJson(data)]

\* A content result that always carries an isError flag.
ToolContent_Flagged(text) ==
  [NoResult EXCEPT !.shape = "content", !.text = text, !.isError = "false"]

\* { content: [{ type: "text", text }] }
ToolContent(text) == [NoResult EXCEPT !.shape = "content", !.text = text]

\* { content: [{ type: "text", text }], isError: true }
ToolError(text) ==
  [NoResult EXCEPT !.shape = "content", !.text = text, !.isError = "true"]

\* { messages: [{ role: "user", content: { type: "text", text } }] }
PromptMessage(text) == [NoResult EXCEPT !.shape = "messages", !.text = text]

Listing(shape, list) == [NoResult EXCEPT !.shape = shape, !.list = list]

\* ------------------------------------------------------------------------
\* Tools
\* ------------------------------------------------------------------------

Tool(name, properties, required, enums) ==
  [name |-> name, properties |-> properties, required |-> required, enums |-> enums]

validSeverities == {s_low, s_medium, s_high, s_critical}
validTypes      == {s_bug, s_vulnerability, s_feature, s_other}
validStatuses   == {s_open, s_in_progress, s_resolved, s_closed, s_wont_fix}

\* ListTools handler: the catalog it returns.
ListToolsResult ==
  << Tool("submit_issue",
          {"title", "description", "repo_id", "severity", "type"},
          {"title", "description", "severity", "type"},
          [severity |-> validSeverities, type |-> validTypes]),
     Tool("award_bacon",
          {"contributor_id", "points", "reason"},
          {"contributor_id", "points", "reason"},
          [points |-> {}]),
     Tool("update_issue_status",
          {"issue_id", "status", "comment"},
          {"issue_id", "status"},
          [status |-> validStatuses]),
     Tool("add_comment",
          {"issue_id", "comment"},
          {"issue_id", "comment"},
          [comment |-> {}]) >>

\* The arguments of one makeApiRequest call.
ApiCall(endpoint, method, body) ==
  [endpoint |-> endpoint, method |-> method, body |-> body]

\* severity falling back to "medium" when it is not given.
SubmitSeverity_Default(safeArgs) ==
  IF Get(safeArgs, "severity").t \in {"undefined", "null"}
    THEN Ok(Str(s_medium))
    ELSE assertRequiredString(safeArgs, "severity")

\* const severity = assertRequiredString(safeArgs, "severity")
SubmitSeverity(safeArgs) == assertRequiredString(safeArgs, "severity")

\* const type = assertRequiredString(safeArgs, "type")
SubmitType(safeArgs) == assertRequiredString(safeArgs, "type")

\* { title, description, ...(repoId && { repo_id: repoId }), severity, type }
SubmitIssueBody(title, description, repoId, severity, type) ==
  IF repoId.t = "string" /\ repoId.s # <<>>
    THEN [title |-> title, description |-> description, repo_id |-> repoId,
          severity |-> severity, type |-> type]
    ELSE [title |-> title, description |-> description,
          severity |-> severity, type |-> type]

\* case "submit_issue", up to its makeApiRequest call
SubmitIssue(safeArgs) ==
  LET title       == assertRequiredString(safeArgs, "title")
      description == assertRequiredString(safeArgs, "description")
      repoId      == assertOptionalString(safeArgs, "repo_id")
      severity    == SubmitSeverity(safeArgs)
      type        == SubmitType(safeArgs)
  IN  IF ~title.ok THEN title
      ELSE IF ~description.ok THEN description
      ELSE IF ~repoId.ok THEN repoId
      ELSE IF ~severity.ok THEN severity
      ELSE IF ~type.ok THEN type
      ELSE IF severity.val.s \notin validSeverities
        THEN Throw(ValidationError(
               <<"\"severity\" must be one of: ", "low, medium, high, critical">>))
      ELSE IF type.val.s \notin validTypes
        THEN Throw(ValidationError(
               <<"\"type\" must be one of: ", "bug, vulnerability, feature, other">>))
      ELSE Ok(ApiCall(Slash \o s_issues, "POST",
                Body(SubmitIssueBody(title.val, description.val, repoId.val,
                                     severity.val, type.val))))

\* The flat collection endpoint award_bacon used to post to.
AwardEndpoint_Flat(contributorId) == Slash \o s_rewards

\* `/contributors/${contributorId}/rewards`
AwardEndpoint(contributorId) ==
  Slash \o s_contributors \o Slash \o contributorId \o Slash \o s_rewards

\* { points, reason }
AwardBody(points, reason) == [points |-> points, reason |-> reason]

\* case "award_bacon", up to its makeApiRequest call
AwardBacon(safeArgs) ==
  LET rawContributorId == assertRequiredString(safeArgs, "contributor_id")
      points           == assertRequiredNumber(safeArgs, "points")
      reason           == assertRequiredString(safeArgs, "reason")
      contributorId    == assertSafeId(rawContributorId.val, "contributor_id")
  IN  IF ~rawContributorId.ok THEN rawContributorId
      ELSE IF ~points.ok THEN points
      ELSE IF ~reason.ok THEN reason
      ELSE IF NotPositive(points.val)
        THEN Throw(ValidationError(<<"\"points\" must be a positive number">>))
      ELSE IF ~contributorId.ok THEN contributorId
      ELSE Ok(ApiCall(AwardEndpoint(contributorId.val.s), "POST",
                      Body(AwardBody(points.val, reason.val))))

\* update_issue_status with comment: comment ?? "" in place of the
\* conditional spread.
UpdateIssueStatus_AlwaysComment(safeArgs) ==
  LET rawIssueId == assertRequiredString(safeArgs, "issue_id")
      status     == assertRequiredString(safeArgs, "status")
      comment    == assertOptionalString(safeArgs, "comment")
      issueId    == assertSafeId(rawIssueId.val, "issue_id")
  IN  IF ~rawIssueId.ok THEN rawIssueId
      ELSE IF ~status.ok THEN status
      ELSE IF ~comment.ok THEN comment
      ELSE IF status.val.s \notin validStatuses
        THEN Throw(ValidationError(
               <<"\"status\" must be one of: ",
                 "open, in_progress, resolved, closed, wont_fix">>))
      ELSE IF ~issueId.ok THEN issueId
      ELSE Ok(ApiCall(Slash \o s_issues \o Slash \o issueId.val.s, "PATCH",
                Body([status |-> status.val,
                      comment |-> IF comment.val.t = "string"
                                    THEN comment.val ELSE Str(<<>>)])))

\* case "update_issue_status", up to its makeApiRequest call
UpdateIssueStatus(safeArgs) ==
  LET rawIssueId == assertRequiredString(safeArgs, "issue_id")
      status     == assertRequiredString(safeArgs, "status")
      comment    == assertOptionalString(safeArgs, "comment")
      issueId    == assertSafeId(rawIssueId.val, "issue_id")
  IN  IF ~rawIssueId.ok THEN rawIssueId
      ELSE IF ~status.ok THEN status
      ELSE IF ~comment.ok THEN comment
      ELSE IF status.val.s \notin validStatuses
        THEN Throw(ValidationError(
               <<"\"status\" must be one of: ",
                 "open, in_progress, resolved, closed, wont_fix">>))
      ELSE IF ~issueId.ok THEN issueId
      ELSE Ok(ApiCall(Slash \o s_issues \o Slash \o issueId.val.s, "PATCH",
                Body(IF comment.val.t = "string"
                       THEN [status |-> status.val, comment |-> comment.val]
                       ELSE [status |-> status.val])))

\* add_comment sending with the raw issue_id, its safety not checked first.
AddComment_SendsUnchecked(safeArgs) ==
  LET rawIssueId == assertRequiredString(safeArgs, "issue_id")
      comment    == assertRequiredString(safeArgs, "comment")
  IN  IF ~rawIssueId.ok THEN rawIssueId
      ELSE IF ~comment.ok THEN comment
      ELSE Ok(ApiCall(Slash \o s_issues \o Slash \o rawIssueId.val.s
                        \o Slash \o s_comments,
                      "POST", Body([comment |-> comment.val])))

\* case "add_comment", up to its makeApiRequest call
AddComment(safeArgs) ==
  LET rawIssueId == assertRequiredString(safeArgs, "issue_id")
      comment    == assertRequiredString(safeArgs, "comment")
      issueId    == assertSafeId(rawIssueId.val, "issue_id")
  IN  IF ~rawIssueId.ok THEN rawIssueId
      ELSE IF ~comment.ok THEN comment
      ELSE IF ~issueId.ok THEN issueId
      ELSE Ok(ApiCall(Slash \o s_issues \o Slash \o issueId.val.s
                        \o Slash \o s_comments,
                      "POST", Body([comment |-> comment.val])))

ToolNames == {"submit_issue", "award_bacon", "update_issue_status", "add_comment"}

\* The switch of the CallTool handler for a declared tool.
ToolBranch(name, safeArgs) ==
  CASE name = "submit_issue"        -> SubmitIssue(safeArgs)
    [] name = "award_bacon"         -> AwardBacon(safeArgs)
    [] name = "update_issue_status" -> UpdateIssueStatus(safeArgs)
    [] name = "add_comment"         -> AddComment(safeArgs)

\* A catch that labels every failure alike.
ToolErrorLabel_Generic(error) == <<"Error">>

\* The label the catch of the CallTool handler derives from the error class.
ToolErrorLabel(error) ==
  CASE error.kind = "ValidationError" -> <<"Validation error">>
    [] error.kind = "ApiTimeoutError" -> <<"Timeout error">>
    [] error.kind = "ApiHttpError"    -> <<"HTTP ", StatusStr(error.status), " error">>
    [] error.kind = "ApiNetworkError" -> <<"Network error">>
    [] OTHER                          -> <<"Error">>

\* The catch of the CallTool handler.
CallToolCatch(error) ==
  ToolError(ToolErrorLabel(error) \o <<": ">> \o error.msg)

\* !args || typeof args !== "object"
ArgsMissing(args) == args.t \notin {"object", "array"}

\* What the synchronous part of a handler ends in: its outcome, or the
\* makeApiRequest call it awaits.
NoApiCall == ApiCall(<<>>, "", NoBody)

Finish(out) == [await |-> FALSE, out |-> out, call |-> NoApiCall]
Await(call) == [await |-> TRUE, out |-> Returned(NoResult), call |-> call]

\* ReadResource handler, up to its first await.
ReadResourceStart(uri) ==
  LET m  == MatchUri(uri)
      ep == ResourceEndpoint(m.type, m.hasId, m.id)
  IN  IF ~m.match
        THEN Finish(Thrown(GenericError(<<"Invalid BLT URI: ">> \o uri)))
      ELSE IF ~ep.ok THEN Finish(Thrown(ReadResourceWrap(uri, ep.err)))
      ELSE Await(ApiCall(ep.val, "GET", NoBody))

\* ReadResource handler, from the settling of its makeApiRequest call.
ReadResourceSettle(uri, api) ==
  IF api.ok THEN Returned(ResourceContents(uri, api.val))
  ELSE Thrown(ReadResourceWrap(uri, api.err))

\* CallTool handler, up to its first await.
CallToolStart(name, args) ==
  IF ArgsMissing(args)
    THEN Finish(Returned(ToolError(<<"Error", ": ", "Missing required arguments">>)))
  ELSE IF name \notin ToolNames
    THEN Finish(Returned(ToolError(<<"Error", ": ", "Unknown tool \"", name, "\"">>)))
  ELSE LET branch == ToolBranch(name, args.m)
       IN  IF branch.ok THEN Await(branch.val)
           ELSE Finish(Returned(CallToolCatch(branch.err)))

\* The CallTool handler without its try/catch around the call.
CallToolSettle_NoCatch(api) ==
  IF api.ok THEN Returned(ToolContent(PrettyJson(api.val)))
  ELSE Thrown(api.err)

\* CallTool handler, from the settling of its makeApiRequest call.
CallToolSettle(api) ==
  IF api.ok THEN Returned(ToolContent(PrettyJson(api.val)))
  ELSE Returned(CallToolCatch(api.err))

\* ------------------------------------------------------------------------
\* Prompts
\* ------------------------------------------------------------------------

Prompt(name, required, optional) ==
  [name |-> name, required |-> required, optional |-> optional]

\* ListPrompts handler: the catalog it returns.
ListPromptsResult ==
  << Prompt("triage_vulnerability", "vulnerability_description", "affected_component"),
     Prompt("plan_remediation", "issue_id", "context"),
     Prompt("review_contribution", "contribution_id", "contribution_type") >>

\* args?.field || fallback, without the trim.
PromptArg_Untrimmed(args, field, fallback) ==
  LET value == IF args.t = "object" THEN Get(args.m, field) ELSE Undefined
  IN  IF value.t = "string" /\ value.s # <<>> THEN value.s
      ELSE fallback

\* args?.field?.trim() || fallback   (prompt arguments are strings)
PromptArg(args, field, fallback) ==
  LET value == IF args.t = "object" THEN Get(args.m, field) ELSE Undefined
  IN  IF value.t = "string" /\ Trim(value.s) # <<>> THEN Trim(value.s)
      ELSE fallback

TriageText(vulnerabilityDesc, affectedComponent) ==
  <<"You are a security expert helping to triage a vulnerability report. [...] Vulnerability Description:\n">>
    \o vulnerabilityDesc \o <<"\n\nAffected Component: ">> \o affectedComponent
    \o <<"\n\nPlease provide a structured analysis with clear, actionable recommendations.">>

RemediationText(issueId, issueDetail, context) ==
  <<"You are a security expert creating a remediation plan for issue #">>
    \o issueId \o <<". [...] Issue Details:\n">> \o issueDetail \o <<"\n">>
    \o (IF context # <<>>
          THEN <<"\nAdditional Context:\n">> \o context \o <<"\n">> ELSE <<>>)
    \o <<"\nPlease create a comprehensive, actionable remediation plan that can be followed by the development team.">>

ReviewText(contributionId, contributionType) ==
  <<"You are reviewing a security contribution (ID: ">> \o contributionId
    \o <<", Type: ">> \o contributionType
    \o <<"). [...] Be constructive and encouraging while maintaining high standards for security contributions.">>

\* GetPrompt handler, up to its first await.
GetPromptStart(name, args) ==
  CASE name = "triage_vulnerability" ->
         LET vulnerabilityDesc == PromptArg(args, "vulnerability_description", <<>>)
             affectedComponent == PromptArg(args, "affected_component",
                                            <<"unspecified component">>)
         IN  IF vulnerabilityDesc = <<>>
               THEN Finish(Thrown(ValidationError(
                      <<"\"vulnerability_description\" is required for triage_vulnerability">>)))
               ELSE Finish(Returned(PromptMessage(
                      TriageText(vulnerabilityDesc, affectedComponent))))
    [] name = "plan_remediation" ->
         LET rawIssueId == PromptArg(args, "issue_id", <<>>)
             issueId    == assertSafeId(Str(rawIssueId), "issue_id")
         IN  IF rawIssueId = <<>>
               THEN Finish(Thrown(ValidationError(
                      <<"\"issue_id\" is required for plan_remediation">>)))
             ELSE IF ~issueId.ok THEN Finish(Thrown(issueId.err))
             ELSE Await(ApiCall(Slash \o s_issues \o Slash \o issueId.val.s,
                                "GET", NoBody))
    [] name = "review_contribution" ->
         LET contributionId   == PromptArg(args, "contribution_id", <<>>)
             contributionType == PromptArg(args, "contribution_type", <<"contribution">>)
         IN  IF contributionId = <<>>
               THEN Finish(Thrown(ValidationError(
                      <<"\"contribution_id\" is required for review_contribution">>)))
               ELSE Finish(Returned(PromptMessage(
                      ReviewText(contributionId, contributionType))))
    [] OTHER -> Finish(Thrown(GenericError(<<"Unknown prompt: ", name>>)))

\* plan_remediation without the try/catch around its lookup.
GetPromptSettle_Rethrow(args, api) ==
  IF api.ok
    THEN Returned(PromptMessage(RemediationText(PromptArg(args, "issue_id", <<>>),
                                                PrettyJson(api.val),
                                                PromptArg(args, "context", <<>>))))
    ELSE Thrown(api.err)

\* GetPrompt handler (plan_remediation), from the settling of its lookup.
GetPromptSettle(args, api) ==
  LET issueId     == PromptArg(args, "issue_id", <<>>)
      issueDetail == IF api.ok THEN PrettyJson(api.val)
                     ELSE <<"(Could not fetch issue details: ">> \o api.err.msg \o <<")">>
      context     == PromptArg(args, "context", <<>>)
  IN  Returned(PromptMessage(RemediationText(issueId, issueDetail, context)))

\* ------------------------------------------------------------------------
\* Requests the client sends (the inputs of the model)
\* ------------------------------------------------------------------------

NoMapping == [f \in {} |-> Undefined]

\* request.params.arguments
ArgsAbsent   == [t |-> "undefined", m |-> NoMapping]
ArgsNull     == [t |-> "null",      m |-> NoMapping]
ArgsString   == [t |-> "string",    m |-> NoMapping]
ArgsArray    == [t |-> "array",     m |-> NoMapping]
ArgsObj(m)   == [t |-> "object",    m |-> m]

With(m, field, value) ==
  [f \in DOMAIN m \cup {field} |-> IF f = field THEN value ELSE m[f]]

Without(m, field) == [f \in DOMAIN m \ {field} |-> m[f]]

Request(kind, uri, name, args) ==
  [kind |-> kind, uri |-> uri, name |-> name, args |-> args]

\* Identifiers: safe ones, a safe one padded with whitespace, unsafe ones.
id_a1      == <<"a","1">>
id_42      == <<"4","2">>
id_padded  == <<" ","a","1"," ">>
id_slash   == <<"1","/",".",".","/","x">>
id_dots    == <<".",".">>
id_percent == <<"%","2","e">>
id_space   == <<"a"," ","b">>
blank      == <<" "," ">>

SafeIds   == {id_a1, id_42}
UnsafeIds == {id_padded, id_slash, id_dots, id_percent, id_space}

txt_x      == <<"x">>
txt_padded == <<" ","x"," ">>
sev_padded == <<" ","h","i","g","h"," ">>
word_bogus == <<"b","o","g","u","s">>
num_5      == <<"5">>

Uri(type) == s_scheme \o type

EntityTypes     == {s_issues, s_repos, s_contributors, s_workflows}
CollectionTypes == {s_leaderboards, s_rewards}
ResourceTypes   == EntityTypes \cup CollectionTypes

CatalogUris == {ListResourcesResult[i].uri : i \in 1..Len(ListResourcesResult)}

ResourceUris ==
  CatalogUris
    \cup {Uri(t) \o Slash \o id_a1 : t \in ResourceTypes}
    \cup {Uri(s_issues) \o Slash \o x : x \in UnsafeIds}
    \cup {Uri(s_leaderboards) \o Slash \o x : x \in {id_slash, id_padded}}
    \cup { Uri(s_issues) \o Slash,                    \* empty identifier
           Uri(s_issues) \o Slash \o id_a1 \o <<"\n">>, \* line terminator
           <<"h","t","t","p",":","/","/","i","s","s","u","e","s">>,
           s_scheme,
           Uri(<<"u","s","e","r","s">>) }

BaseSubmit ==
  [title |-> Str(<<"t">>), description |-> Str(<<"d">>),
   severity |-> Str(s_high), type |-> Str(s_bug)]

\* Values a required string field is given besides a valid one.
BadStrings == {Null, Num(5), Str(blank)}

SubmitArgs ==
  {BaseSubmit, Without(Without(BaseSubmit, "severity"), "type")}
    \cup {Without(BaseSubmit, f) : f \in {"title", "severity", "type"}}
    \cup {With(BaseSubmit, f, v) : f \in {"severity", "type"}, v \in BadStrings}
    \cup {With(BaseSubmit, "severity", Str(v)) : v \in {sev_padded, word_bogus}}
    \cup {With(BaseSubmit, "type", Str(word_bogus))}
    \cup {With(BaseSubmit, "title", Str(txt_padded)),
          With(BaseSubmit, "description", Str(blank))}
    \cup {With(BaseSubmit, "repo_id", v) :
            v \in {Str(id_a1), Str(id_padded), Str(id_slash), Str(blank), Num(5), Null}}

BaseAward ==
  [contributor_id |-> Str(id_42), points |-> Num(10), reason |-> Str(txt_x)]

AwardArgs ==
  {BaseAward}
    \cup {Without(BaseAward, f) : f \in {"contributor_id", "points", "reason"}}
    \cup {With(BaseAward, "contributor_id", v) :
            v \in {Str(x) : x \in UnsafeIds} \cup {Str(blank), Num(5)}}
    \cup {With(BaseAward, "points", v) :
            v \in {Null, Num(0), Num(0 - 1), Str(num_5), Str(word_bogus),
                   Str(s_Infinity), Str(blank)}}
    \cup {With(BaseAward, "reason", v) : v \in {Str(txt_padded), Str(blank)}}

BaseUpdate == [issue_id |-> Str(id_a1), status |-> Str(s_resolved)]

UpdateArgs ==
  {BaseUpdate, Without(BaseUpdate, "status")}
    \cup {With(BaseUpdate, "issue_id", Str(x)) : x \in {id_padded, id_slash}}
    \cup {With(BaseUpdate, "status", Str(word_bogus))}
    \cup {With(BaseUpdate, "comment", v) :
            v \in {Str(txt_x), Str(txt_padded), Str(blank), Num(5)}}

BaseComment == [issue_id |-> Str(id_a1), comment |-> Str(txt_x)]

CommentArgs ==
  {BaseComment, Without(BaseComment, "comment")}
    \cup {With(BaseComment, "issue_id", Str(x)) : x \in {id_padded, id_slash}}
    \cup {With(BaseComment, "comment", v) : v \in {Str(txt_padded), Str(blank)}}

NotMappings == {ArgsAbsent, ArgsNull, ArgsString}

ToolRequests ==
  {Request("callTool", <<>>, "submit_issue", ArgsObj(m)) : m \in SubmitArgs}
    \cup {Request("callTool", <<>>, "award_bacon", ArgsObj(m)) : m \in AwardArgs}
    \cup {Request("callTool", <<>>, "update_issue_status", ArgsObj(m)) : m \in UpdateArgs}
    \cup {Request("callTool", <<>>, "add_comment", ArgsObj(m)) : m \in CommentArgs}
    \cup {Request("callTool", <<>>, n, a) :
            n \in ToolNames \cup {"nonexistent_tool"}, a \in NotMappings}
    \cup {Request("callTool", <<>>, "nonexistent_tool", ArgsObj(NoMapping)),
          Request("callTool", <<>>, "nonexistent_tool", ArgsObj(BaseSubmit)),
          Request("callTool", <<>>, "submit_issue", ArgsArray)}

PromptRequests ==
  {Request("getPrompt", <<>>, "triage_vulnerability", a) :
     a \in {ArgsAbsent,
            ArgsObj([vulnerability_description |-> Str(txt_x)]),
            ArgsObj([vulnerability_description |-> Str(blank)]),
            ArgsObj([vulnerability_description |-> Str(txt_padded),
                     affected_component |-> Str(txt_x)])}}
    \cup {Request("getPrompt", <<>>, "review_contribution", a) :
     a \in {ArgsAbsent,
            ArgsObj([contribution_id |-> Str(id_a1)]),
            ArgsObj([contribution_id |-> Str(blank)]),
            ArgsObj([contribution_id |-> Str(id_slash),
                     contribution_type |-> Str(txt_x)])}}
    \cup {Request("getPrompt", <<>>, "plan_remediation", a) :
     a \in {ArgsAbsent, ArgsObj([context |-> Str(txt_x)])}
           \cup {ArgsObj([issue_id |-> Str(x)]) :
                   x \in {id_a1, id_padded, id_slash, id_percent, blank}}
           \cup {ArgsObj([issue_id |-> Str(id_a1), context |-> Str(txt_padded)])}}
    \cup {Request("getPrompt", <<>>, "unknown_prompt", ArgsObj(NoMapping))}

ReadRequests == {Request("readResource", u, "", ArgsAbsent) : u \in ResourceUris}

ListKinds == {"listResources", "listTools", "listPrompts"}

\* What the remote can answer.
ErrorStatuses == {404, 500}
RemoteJson    == {"{\"id\":1}"}

\* The environment the process starts in (BLT_API_BASE, BLT_API_KEY).
Environments ==
  {[base |-> "", key |-> ""],
   [base |-> "https://blt.internal.example/api", key |-> "k-1"],
   [base |-> "blt.internal.example/api", key |-> "k-2"]}

\* Values of BLT_API_BASE that are not absolute URLs (no scheme).
SchemelessBases == {"blt.internal.example/api"}

\* fetch(url) parses `${BLT_API_BASE}${endpoint}` before anything is sent.
UrlParses(base) == base \notin SchemelessBases

\* The message of the TypeError fetch rejects with: a url that does not parse
\* is named in it, a connection that fails is not.
FetchFailureMessage(fetch) ==
  IF UrlParses(fetch.base) THEN <<"fetch failed">>
  ELSE <<"Failed to parse URL from ", fetch.base>> \o fetch.endpoint

\* ------------------------------------------------------------------------
\* The server
\* ------------------------------------------------------------------------

\* Requests that may be under way at once (received and not yet answered).
MaxInFlight == 2

VARIABLES
  config,    \* BLT_API_BASE and BLT_API_KEY, read once at startup
  inflight,  \* bag of the makeApiRequest calls awaited, each with its request
  outbox     \* <<>>, or the one response the handler that just ended hands
             \* to the transport

vars == <<config, inflight, outbox>>

\* One awaited makeApiRequest call: phase "fetch" until fetch settles, then
\* "body" while response.json() is read; timer is the setTimeout handle.
Pending(req, call) ==
  [req   |-> req,
   fetch |-> FetchRequest(config, call.endpoint, call.method, call.body),
   phase |-> "fetch",
   timer |-> "armed"]

NoApi == [ok |-> FALSE, val |-> "", err |-> Err("", <<>>, 0)]
ApiValue(data) == [ok |-> TRUE, val |-> data, err |-> Err("", <<>>, 0)]
ApiThrow(err)  == [ok |-> FALSE, val |-> "", err |-> err]

\* A response: the request, the fetches issued for it, how its makeApiRequest
\* call settled (event: what happened to the call), and the handler's outcome.
Response(req, calls, api, event, out) ==
  [req |-> req, calls |-> calls, api |-> api, event |-> event, out |-> out]

Init ==
  /\ \E env \in Environments :
       config = [base |-> BLT_API_BASE(env), key |-> BLT_API_KEY(env)]
  /\ inflight = EmptyBag
  /\ outbox = <<>>

\* The event loop runs one callback at a time; a handler that ended has its
\* response written before the next callback runs.
Idle == outbox = <<>>

CanAccept == Idle /\ BagCardinality(inflight) < MaxInFlight

\* A handler that issues its outbound call twice.
Dispatch_Twice(req, plan) ==
  IF plan.await
    THEN /\ inflight' = inflight (+) SetToBag({Pending(req, plan.call)})
                                 (+) SetToBag({Pending(req, plan.call)})
         /\ outbox' = outbox
    ELSE /\ outbox' = <<Response(req, <<>>, NoApi, "none", plan.out)>>
         /\ inflight' = inflight

\* The handler of a request has run up to its first await, or to its end.
Dispatch(req, plan) ==
  IF plan.await
    THEN /\ inflight' = inflight (+) SetToBag({Pending(req, plan.call)})
         /\ outbox' = outbox
    ELSE /\ outbox' = <<Response(req, <<>>, NoApi, "none", plan.out)>>
         /\ inflight' = inflight

ListResources ==
  /\ CanAccept
  /\ Dispatch(Request("listResources", <<>>, "", ArgsAbsent),
              Finish(Returned(Listing("resources", ListResourcesResult))))
  /\ UNCHANGED config

\* A ListTools handler that answers from state the other handlers touch.
ListTools_WhenQuiet ==
  /\ CanAccept
  /\ Dispatch(Request("listTools", <<>>, "", ArgsAbsent),
              Finish(Returned(Listing("tools",
                IF inflight = EmptyBag THEN ListToolsResult ELSE <<>>))))
  /\ UNCHANGED config

ListTools ==
  /\ CanAccept
  /\ Dispatch(Request("listTools", <<>>, "", ArgsAbsent),
              Finish(Returned(Listing("tools", ListToolsResult))))
  /\ UNCHANGED config

ListPrompts ==
  /\ CanAccept
  /\ Dispatch(Request("listPrompts", <<>>, "", ArgsAbsent),
              Finish(Returned(Listing("prompts", ListPromptsResult))))
  /\ UNCHANGED config

ReadResource ==
  /\ CanAccept
  /\ \E req \in ReadRequests : Dispatch(req, ReadResourceStart(req.uri))
  /\ UNCHANGED config

CallTool ==
  /\ CanAccept
  /\ \E req \in ToolRequests : Dispatch(req, CallToolStart(req.name, req.args))
  /\ UNCHANGED config

GetPrompt ==
  /\ CanAccept
  /\ \E req \in PromptRequests : Dispatch(req, GetPromptStart(req.name, req.args))
  /\ UNCHANGED config

\* The rest of the handler that awaited the call, once the call has settled.
HandlerSettle(req, api) ==
  CASE req.kind = "readResource" -> ReadResourceSettle(req.uri, api)
    [] req.kind = "callTool"     -> CallToolSettle(api)
    [] OTHER                     -> GetPromptSettle(req.args, api)

\* makeApiRequest of call c returns or throws, and its handler runs to its end.
Settle(c, api, event) ==
  /\ inflight' = inflight (-) SetToBag({c})
  /\ outbox' = <<Response(c.req, <<c.fetch>>, api, event, HandlerSettle(c.req, api))>>
  /\ UNCHANGED config

\* fetch resolves with a response (its headers): finally clears the timer;
\* a status that is not ok is thrown, otherwise response.json() is awaited.
FetchResolvesError ==
  /\ Idle
  /\ \E c \in BagToSet(inflight), status \in ErrorStatuses :
       /\ c.phase = "fetch"
       /\ UrlParses(c.fetch.base)
       /\ Settle(c, ApiThrow(ApiHttpError(status, StatusText(status), c.fetch.endpoint)),
                 "http")

\* fetch resolving without the finally that clears the timer.
FetchResolvesOk_TimerKept ==
  /\ Idle
  /\ \E c \in BagToSet(inflight) :
       /\ c.phase = "fetch"
       /\ UrlParses(c.fetch.base)
       /\ inflight' = (inflight (-) SetToBag({c}))
                        (+) SetToBag({[c EXCEPT !.phase = "body"]})
  /\ UNCHANGED <<config, outbox>>

FetchResolvesOk ==
  /\ Idle
  /\ \E c \in BagToSet(inflight) :
       /\ c.phase = "fetch"
       /\ UrlParses(c.fetch.base)
       /\ inflight' = (inflight (-) SetToBag({c}))
                        (+) SetToBag({[c EXCEPT !.phase = "body", !.timer = "cleared"]})
  /\ UNCHANGED <<config, outbox>>

\* fetch rejects before any response: the url does not parse, or the
\* connection fails.
FetchRejects ==
  /\ Idle
  /\ \E c \in BagToSet(inflight) :
       /\ c.phase = "fetch"
       /\ Settle(c, ApiThrow(ClassifyFetchRejection(c.fetch.endpoint, "TypeError",
                                                    FetchFailureMessage(c.fetch))),
                 "network")

\* A timer that aborts through a controller shared by all the calls.
TimerFires_SharedController ==
  /\ Idle
  /\ \E c \in BagToSet(inflight) :
       /\ c.timer = "armed"
       /\ c.phase = "fetch"
       /\ UrlParses(c.fetch.base)
       /\ LET api == ApiThrow(ApiTimeoutError(c.fetch.endpoint)) IN
          /\ inflight' = [x \in {y \in BagToSet(inflight) : y.timer # "armed"}
                             |-> inflight[x]]
          /\ outbox' = <<Response(c.req, <<c.fetch>>, api, "abort",
                                  HandlerSettle(c.req, api))>>
  /\ UNCHANGED config

\* The timer of a call fires while its fetch is pending: controller.abort()
\* makes fetch reject with AbortError.  Once fetch has resolved the timer is
\* cleared and cannot fire.
TimerFires ==
  /\ Idle
  /\ \E c \in BagToSet(inflight) :
       /\ c.timer = "armed"
       /\ c.phase = "fetch"
       /\ UrlParses(c.fetch.base)
       /\ Settle(c, ApiThrow(ClassifyFetchRejection(c.fetch.endpoint, "AbortError",
                               <<"This operation was aborted">>)),
                 "abort")

\* response.json() resolves with the parsed body.
BodyParsed ==
  /\ Idle
  /\ \E c \in BagToSet(inflight), data \in RemoteJson :
       /\ c.phase = "body"
       /\ Settle(c, ApiValue(data), "parsed")

\* response.json() rejects: the body is not JSON.
BodyUnparsable ==
  /\ Idle
  /\ \E c \in BagToSet(inflight) :
       /\ c.phase = "body"
       /\ Settle(c, ApiThrow(Err("SyntaxError",
                                 <<"Unexpected token < in JSON at position 0">>, 0)),
                 "unparsable")

\* The transport has written the response.
Send ==
  /\ outbox # <<>>
  /\ outbox' = <<>>
  /\ UNCHANGED <<config, inflight>>

Next ==
  \/ ListResources
  \/ ListTools
  \/ ListPrompts
  \/ ReadResource
  \/ CallTool
  \/ GetPrompt
  \/ FetchResolvesError
  \/ FetchResolvesOk
  \/ FetchRejects
  \/ TimerFires
  \/ BodyParsed
  \/ BodyUnparsable
  \/ Send

Spec == Init /\ [][Next]_vars

\* main: what is written to stderr once the transport is connected.
StartupLog(cfg) ==
  << <<"BLT-MCP server running on stdio">>,
     <<"API key configured: ", IF cfg.key # "" THEN "yes" ELSE "no">> >>

\* ------------------------------------------------------------------------
\* The validation helpers on their own: one call at a time, its argument and
\* what it returned or threw held in outbox
\* ------------------------------------------------------------------------

\* Longest string handed to a helper.
MaxIdLen == 3

\* Characters of the strings handed to assertSafeId: letters of both cases, a
\* digit, the two allowed signs, and what an identifier must not contain.
IdAlphabet == {"a", "Z", "7", "-", "_", "/", ".", "%", " ", "\n"}

IdStrings == UNION {[1..n -> IdAlphabet] : n \in 0..MaxIdLen}

\* id: unknown
IdInputs == {Str(chars) : chars \in IdStrings} \cup {Undefined, Null, Num(5)}

HelperCall(helper, input, result) ==
  [helper |-> helper, input |-> input, result |-> result]

HelperInit ==
  /\ config = [base |-> DEFAULT_API_BASE, key |-> ""]
  /\ inflight = EmptyBag
  /\ outbox = <<>>

CallAssertSafeId ==
  /\ outbox = <<>>
  /\ \E id \in IdInputs :
       outbox' = <<HelperCall("assertSafeId", id, assertSafeId(id, "id"))>>
  /\ UNCHANGED <<config, inflight>>

\* args with the one field given the value, or without it for undefined
FieldArgs(field, value) ==
  IF value.t = "undefined" THEN NoMapping ELSE [f \in {field} |-> value]

CallAssertOptionalString ==
  /\ outbox = <<>>
  /\ \E value \in IdInputs :
       outbox' = <<HelperCall("assertOptionalString", value,
                              assertOptionalString(FieldArgs("repo_id", value), "repo_id"))>>
  /\ UNCHANGED <<config, inflight>>

\* The caller has taken the outcome.
HelperDone ==
  /\ outbox # <<>>
  /\ outbox' = <<>>
  /\ UNCHANGED <<config, inflight>>

HelperNext ==
  \/ CallAssertSafeId
  \/ CallAssertOptionalString
  \/ HelperDone

HelperSpec == HelperInit /\ [][HelperNext]_vars

\* ------------------------------------------------------------------------
\* Vocabulary of the properties
\* ------------------------------------------------------------------------

\* Every request under way or just answered, with the fetches issued for it.
Handled ==
  {[req |-> c.req, calls |-> <<c.fetch>>, done |-> FALSE, api |-> NoApi,
    event |-> "pending", out |-> Returned(NoResult)] : c \in BagToSet(inflight)}
  \cup
  {[req |-> outbox[i].req, calls |-> outbox[i].calls, done |-> TRUE,
    api |-> outbox[i].api, event |-> outbox[i].event, out |-> outbox[i].out] :
     i \in 1..Len(outbox)}

Answered == {h \in Handled : h.done}

AllFetches == UNION {{h.calls[i] : i \in 1..Len(h.calls)} : h \in Handled}

\* The segments of a path: the runs of characters between its slashes.
RECURSIVE Segments(_)
Segments(path) ==
  LET i == FirstSlashFrom(path, 1) IN
  IF i = 0 THEN <<path>>
  ELSE <<SubSeq(path, 1, i - 1)>> \o Segments(SubSeq(path, i + 1, Len(path)))

\* /type, /type/id or /type/id/sub, the id matching ^[a-zA-Z0-9_-]+$
PathIsSafe(endpoint) ==
  LET segs == Segments(endpoint) IN
  /\ Len(segs) \in 2..4
  /\ segs[1] = <<>>
  /\ segs[2] \in ResourceTypes
  /\ Len(segs) >= 3 => MatchesSafeIdRegex(segs[3])
  /\ Len(segs) = 4 => segs[4] \in {s_rewards, s_comments}

HasUnsafeChar(chars) ==
  \E i \in 1..Len(chars) : chars[i] \in {"/", ".", "%"} \cup WhiteSpace

\* The argument of a tool or prompt that becomes a path segment.
IdField(req) ==
  CASE req.kind = "callTool" /\ req.name = "award_bacon" -> "contributor_id"
    [] req.kind = "callTool" /\ req.name \in {"update_issue_status", "add_comment"}
         -> "issue_id"
    [] req.kind = "getPrompt" /\ req.name = "plan_remediation" -> "issue_id"
    [] OTHER -> ""

HasIdArg(req) ==
  /\ IdField(req) # ""
  /\ req.args.t = "object"
  /\ Get(req.args.m, IdField(req)).t = "string"

IdArg(req) == Get(req.args.m, IdField(req)).s

\* uri is blt://<type>/<x> with x containing "/", ".", "%" or whitespace
ReadsUnsafeId(req, types) ==
  /\ req.kind = "readResource"
  /\ \E t \in types :
       /\ IsPrefix(Uri(t) \o Slash, req.uri)
       /\ HasUnsafeChar(SubSeq(req.uri, Len(Uri(t)) + 2, Len(req.uri)))

IsToolError(h, label) ==
  /\ ~h.out.thrown
  /\ h.out.result.shape = "content"
  /\ h.out.result.isError = "true"
  /\ IsPrefix(label \o <<": ">>, h.out.result.text)

IsValidationErrorResult(h) == IsToolError(h, <<"Validation error">>)

IsToolCall(h, name) ==
  h.req.kind = "callTool" /\ h.req.name = name /\ h.req.args.t = "object"

\* ------------------------------------------------------------------------
\* C1
\* ------------------------------------------------------------------------

\* Every outbound path is /type, /type/id or /type/id/sub with a safe id.
C1_PathsSafe == \A f \in AllFetches : PathIsSafe(f.endpoint)

\* C1: every identifier segment of an outbound path is non-empty
\* and matches ^[a-zA-Z0-9_-]+$, and no request whose identifier contains
\* "/", ".", "%" or whitespace produces an outbound call.
C1_IdentifierSafety ==
  /\ C1_PathsSafe
  /\ \A h \in Handled :
       /\ ReadsUnsafeId(h.req, ResourceTypes) => h.calls = <<>>
       /\ (HasIdArg(h.req) /\ HasUnsafeChar(IdArg(h.req))) => h.calls = <<>>

\* ------------------------------------------------------------------------
\* C2
\* ------------------------------------------------------------------------

\* C2: the CallTool handler never throws: whatever the tool name, the
\* arguments and the fate of the outbound call, it returns a content result,
\* and whenever no API outcome was obtained that result has isError = true.
C2_CallToolNeverThrows ==
  \A h \in Answered :
    h.req.kind = "callTool" =>
      /\ ~h.out.thrown
      /\ h.out.result.shape = "content"
      /\ (h.calls = <<>> \/ ~h.api.ok) => h.out.result.isError = "true"

\* A tool call whose response body was not JSON has been answered.
C2_Witness ==
  \E h \in Answered :
    /\ h.req.kind = "callTool" /\ h.event = "unparsable"
    /\ h.out.result.isError = "true"

\* ------------------------------------------------------------------------
\* C3
\* ------------------------------------------------------------------------

\* C3: every makeApiRequest call ends in success or in one of the three typed
\* failures (ApiTimeoutError, ApiNetworkError, ApiHttpError with its status),
\* also when a success-status response has a body that is not JSON.
C3_EveryFailureTyped ==
  \A h \in Answered :
    h.calls # <<>> =>
      \/ h.api.ok
      \/ h.api.err.kind \in {"ApiTimeoutError", "ApiNetworkError"}
      \/ h.api.err.kind = "ApiHttpError" /\ h.api.err.status \in ErrorStatuses

\* ------------------------------------------------------------------------
\* C4
\* ------------------------------------------------------------------------

\* C4: the timeout bounds the whole outbound call: as long as a call has not
\* settled its timer is armed, so that the call is aborted when the bound
\* elapses, also while the response body is still being read.
C4_TimeoutCoversWholeCall ==
  \A c \in BagToSet(inflight) : c.timer = "armed"

\* ------------------------------------------------------------------------
\* C5
\* ------------------------------------------------------------------------

\* C5: a call fails with ApiTimeoutError exactly when its own timer aborted
\* the pending fetch; a fetch that rejects for another reason before a
\* response fails with ApiNetworkError.
C5_TimeoutIffAborted ==
  \A h \in Answered :
    h.calls # <<>> =>
      /\ (~h.api.ok /\ h.api.err.kind = "ApiTimeoutError") <=> h.event = "abort"
      /\ h.event = "network" => (~h.api.ok /\ h.api.err.kind = "ApiNetworkError")

\* A call has just timed out.
C5_Witness ==
  \E h \in Answered : h.event = "abort" /\ h.api.err.kind = "ApiTimeoutError"

\* ------------------------------------------------------------------------
\* C6
\* ------------------------------------------------------------------------

\* missing, null, not a string, or blank
NotSupplied(value) == value.t # "string" \/ Trim(value.s) = <<>>

IsValidAward(h) ==
  /\ IsToolCall(h, "award_bacon")
  /\ LET m == h.req.args.m IN
     /\ Get(m, "contributor_id").t = "string"
     /\ MatchesSafeIdRegex(Get(m, "contributor_id").s)
     /\ Get(m, "points").t = "number" /\ Get(m, "points").k = "finite"
     /\ Get(m, "points").v > 0
     /\ Get(m, "reason").t = "string" /\ Trim(Get(m, "reason").s) # <<>>

AwardCallIs(h, reason) ==
  /\ Len(h.calls) = 1
  /\ h.calls[1].method = "POST"
  /\ h.calls[1].endpoint =
       Slash \o s_contributors \o Slash \o Get(h.req.args.m, "contributor_id").s
         \o Slash \o s_rewards
  /\ h.calls[1].body.present
  /\ h.calls[1].body.json = [points |-> Get(h.req.args.m, "points"), reason |-> reason]

AwardNeverFlat ==
  \A h \in Handled :
    (h.req.kind = "callTool" /\ h.req.name = "award_bacon") =>
      \A i \in 1..Len(h.calls) : h.calls[i].endpoint # Slash \o s_rewards

IsNonBlankString(value) == value.t = "string" /\ Trim(value.s) # <<>>

\* valid title, description, severity and type
IsValidSubmit(h) ==
  /\ IsToolCall(h, "submit_issue")
  /\ LET m == h.req.args.m IN
     /\ IsNonBlankString(Get(m, "title"))
     /\ IsNonBlankString(Get(m, "description"))
     /\ Get(m, "severity").t = "string" /\ Get(m, "severity").s \in validSeverities
     /\ Get(m, "type").t = "string" /\ Get(m, "type").s \in validTypes

FourFields == {"title", "description", "severity", "type"}

PostsIssue(h) ==
  /\ Len(h.calls) = 1
  /\ h.calls[1].method = "POST"
  /\ h.calls[1].endpoint = Slash \o s_issues
  /\ h.calls[1].body.present

\* C8: submit_issue with valid title, description, severity and type (and a
\* repo_id that, when given, is a string) issues exactly one outbound call,
\* POST /issues, whose body holds those four fields as the validators return
\* them, plus a repo_id key if and only if repo_id was supplied, and no
\* repo_id key when it was omitted.
C8_SubmitIssueBody ==
  \A h \in Handled :
    (IsValidSubmit(h) /\ Get(h.req.args.m, "repo_id").t \in {"undefined", "null", "string"}) =>
      /\ PostsIssue(h)
      /\ LET m    == h.req.args.m
             body == h.calls[1].body.json
             supplied == Get(m, "repo_id").t = "string"
         IN  /\ DOMAIN body = FourFields \cup (IF supplied THEN {"repo_id"} ELSE {})
             /\ \A f \in FourFields : body[f] = Str(Trim(m[f].s))

\* ------------------------------------------------------------------------
\* C9
\* ------------------------------------------------------------------------

IsConcreteCollectionUri(uri) ==
  /\ \A i \in 1..Len(uri) : uri[i] \notin {"{", "}"}
  /\ IsPrefix(s_scheme, uri)
  /\ FirstSlashFrom(SubSeq(uri, Len(s_scheme) + 1, Len(uri)), 1) = 0
  /\ Len(uri) > Len(s_scheme)

\* C9: listResources lists only concrete URIs, none with a placeholder or an
\* identifier segment, and reading a listed URI issues exactly one outbound
\* call, a GET of the bare collection endpoint /<type> of that URI.
C9_CatalogPurity ==
  \A h \in Handled :
    /\ h.req.kind = "listResources" =>
         \A i \in 1..Len(h.out.result.list) :
           IsConcreteCollectionUri(h.out.result.list[i].uri)
    /\ (h.req.kind = "readResource" /\ h.req.uri \in CatalogUris) =>
         /\ Len(h.calls) = 1
         /\ h.calls[1].method = "GET"
         /\ ~h.calls[1].body.present
         /\ s_scheme \o Tail(h.calls[1].endpoint) = h.req.uri
         /\ Head(h.calls[1].endpoint) = "/"

\* A listed URI has been read and answered with the collection.
C9_Witness ==
  \E h \in Answered :
    /\ h.req.kind = "readResource" /\ h.req.uri \in CatalogUris
    /\ h.api.ok /\ ~h.out.thrown
    /\ h.calls[1].endpoint = Slash \o s_rewards

\* ------------------------------------------------------------------------
\* C10
\* ------------------------------------------------------------------------

CatalogOf(kind) ==
  CASE kind = "listResources" -> Listing("resources", ListResourcesResult)
    [] kind = "listTools"     -> Listing("tools", ListToolsResult)
    [] OTHER                  -> Listing("prompts", ListPromptsResult)

ListingsAreStatic ==
  \A h \in Answered :
    h.req.kind \in ListKinds =>
      ~h.out.thrown /\ h.out.result = CatalogOf(h.req.kind) /\ h.calls = <<>>

\* C10: whatever requests came before and whatever is under way, a list
\* request returns the same catalog, and no step of any handler changes the
\* configuration read at startup.
C10_ListingIsStateFree ==
  [][config' = config /\ ListingsAreStatic']_vars

\* The tools are listed while a call of another request is in flight.
C10_Witness ==
  /\ \E h \in Answered : h.req.kind = "listTools"
  /\ \E h \in Handled : ~h.done /\ h.req.kind = "callTool"

\* ------------------------------------------------------------------------
\* C11
\* ------------------------------------------------------------------------

CouldNotFetch == "(Could not fetch issue details: "

IsRemediation(h) == h.req.kind = "getPrompt" /\ h.req.name = "plan_remediation"

\* C11: when the issue lookup of plan_remediation fails, whatever the failure
\* (timeout, network failure, HTTP error, a body that is not JSON), getPrompt
\* does not fail: it returns its one user message, and the text of that
\* message holds the "Could not fetch issue details" note with the cause in
\* place of the issue data.
C11_RemediationDegrades ==
  \A h \in Answered :
    (IsRemediation(h) /\ h.calls # <<>> /\ ~h.api.ok) =>
      /\ ~h.out.thrown
      /\ h.out.result.shape = "messages"
      /\ \E i \in 1..Len(h.out.result.text) :
           /\ h.out.result.text[i] = CouldNotFetch
           /\ SubSeq(h.out.result.text, i + 1, i + Len(h.api.err.msg)) = h.api.err.msg
      /\ \A i \in 1..Len(h.out.result.text) : h.out.result.text[i] # "JSON("

\* plan_remediation has been answered after a lookup that ended in HTTP 404.
C11_Witness ==
  \E h \in Answered :
    /\ IsRemediation(h) /\ h.event = "http" /\ h.api.err.status = 404
    /\ ~h.out.thrown
    /\ \E i \in 1..Len(h.out.result.text) : h.out.result.text[i] = CouldNotFetch

\* ------------------------------------------------------------------------
\* C12
\* ------------------------------------------------------------------------

AsciiSafe(chars) ==
  /\ Len(chars) > 0
  /\ \A i \in 1..Len(chars) :
       chars[i] \in Lower \cup Upper \cup Digits \cup {"-", "_"}

HelperCalls(helper) == {outbox[i] : i \in {j \in 1..Len(outbox) : outbox[j].helper = helper}}

\* C12: assertSafeId returns its argument unchanged when that is a non-empty
\* string of ASCII letters, digits, hyphens and underscores, and throws
\* ValidationError for every other argument; a string holding "/", ".", "%"
\* or whitespace is refused, never normalized.
C12_SafeIdExact ==
  \A c \in HelperCalls("assertSafeId") :
    IF c.input.t = "string" /\ AsciiSafe(c.input.s)
      THEN c.result.ok /\ c.result.val = c.input
      ELSE ~c.result.ok /\ c.result.err.kind = "ValidationError"

\* An identifier that is safe but for the whitespace around it was refused.
C12_Witness ==
  \E c \in HelperCalls("assertSafeId") :
    /\ c.input = Str(<<" ", "a", " ">>)
    /\ ~c.result.ok /\ c.result.err.kind = "ValidationError"

\* ------------------------------------------------------------------------
\* C13
\* ------------------------------------------------------------------------

\* The result carries data of the remote: resource contents, or a tool result
\* that is not an error.
CarriesRemoteData(r) ==
  /\ ~r.out.thrown
  /\ \/ r.req.kind = "readResource" /\ r.out.result.shape = "contents"
     \/ r.req.kind = "callTool" /\ r.out.result.isError # "true"

\* One step: at most one call is issued; the step that ends a request ends
\* it with at most one call made for it, none for a list request, takes that
\* call (failed or not) out of the calls under way and issues no other; and
\* data of the remote is only ever returned from the request's own call.
OneCallPerRequest ==
  /\ BagCardinality(inflight') <= BagCardinality(inflight) + 1
  /\ (outbox = <<>> /\ outbox' # <<>>) =>
       LET r == outbox'[1] IN
       /\ Len(r.calls) <= 1
       /\ r.req.kind \in ListKinds => r.calls = <<>>
       /\ BagCardinality(inflight') = BagCardinality(inflight) - Len(r.calls)
       /\ CarriesRemoteData(r) => (Len(r.calls) = 1 /\ r.event = "parsed")

OwnOutcomes(fetch) ==
  {ApiValue(data) : data \in RemoteJson}
    \cup {ApiThrow(ApiHttpError(s, StatusText(s), fetch.endpoint)) : s \in ErrorStatuses}
    \cup {ApiThrow(ApiTimeoutError(fetch.endpoint)),
          ApiThrow(ApiNetworkError(fetch.endpoint, FetchFailureMessage(fetch))),
          ApiThrow(Err("SyntaxError", <<"Unexpected token < in JSON at position 0">>, 0))}

\* One step touches the call of one request only: a call is added, or one
\* call moves on to its body, or one call ends (by its timer or otherwise)
\* and the answer is that of its own request, made from its own outcome; the
\* other calls under way are left as they are.
TouchesOwnCallOnly ==
  \/ inflight' = inflight
  \/ \E c \in BagToSet(inflight') :
       inflight' (-) SetToBag({c}) = inflight /\ CopiesIn(c, inflight') = CopiesIn(c, inflight) + 1
  \/ \E c \in BagToSet(inflight) :
       \/ /\ inflight' = inflight (-) SetToBag({c})
          /\ outbox = <<>> /\ Len(outbox') = 1
          /\ outbox'[1].req = c.req
          /\ outbox'[1].calls = <<c.fetch>>
          /\ outbox'[1].api \in OwnOutcomes(c.fetch)
          /\ outbox'[1].out = HandlerSettle(c.req, outbox'[1].api)
          /\ outbox'[1].event = "abort" => c.timer = "armed"
       \/ /\ inflight' = (inflight (-) SetToBag({c}))
                           (+) SetToBag({[c EXCEPT !.phase = "body", !.timer = "cleared"]})
          /\ outbox' = outbox

\* C14: requests with calls under way at once are isolated: the timeout of a
\* call aborts that call only, and the result of a request is made from its
\* own inputs and the outcome of its own call, whatever the interleaving.
C14_RequestsIsolated == [][TouchesOwnCallOnly]_vars

\* One call has just timed out while the call of another request goes on.
C14_Witness ==
  /\ outbox # <<>> /\ outbox[1].event = "abort"
  /\ \E c \in BagToSet(inflight) :
       c.timer = "armed" /\ c.req # outbox[1].req

\* ------------------------------------------------------------------------
\* C15
\* ------------------------------------------------------------------------

\* The configured values: the API base URL and the API key, when set.
ConfiguredValues ==
  (IF config.base # DEFAULT_API_BASE THEN {config.base} ELSE {})
    \cup (IF config.key # "" THEN {config.key} ELSE {})

\* What a request was answered with, as text: the message of the error
\* thrown, or the text of the result.
OutputText(h) == IF h.out.thrown THEN h.out.err.msg ELSE h.out.result.text

MentionsConfig(text) == \E i \in 1..Len(text) : text[i] \in ConfiguredValues

\* C15: no configured value reaches an output: no result, no error text and
\* no log line holds the configured API base URL or the API key, so that runs
\* differing only in these values give the same outputs; the log says only
\* whether a key is configured.
C15_NoConfigLeak ==
  /\ \A h \in Answered : ~MentionsConfig(OutputText(h))
  /\ \A i \in 1..Len(StartupLog(config)) : ~MentionsConfig(StartupLog(config)[i])

\* ------------------------------------------------------------------------
\* C16
\* ------------------------------------------------------------------------

ReadFailurePrefix(uri) == <<"Failed to read resource ">> \o uri

\* C16: every failure of readResource (a URI of the wrong shape, an unknown
\* resource type, an identifier that fails validation, a failed API call) is
\* thrown as an error whose message is "Failed to read resource <uri>"
\* followed by the message of the cause.
C16_ReadFailuresWrapped ==
  \A h \in Answered :
    h.req.kind = "readResource" =>
      /\ (h.calls = <<>> \/ ~h.api.ok) => h.out.thrown
      /\ h.out.thrown => IsPrefix(ReadFailurePrefix(h.req.uri), h.out.err.msg)
      /\ (h.calls # <<>> /\ ~h.api.ok) =>
           h.out.err.msg = ReadFailurePrefix(h.req.uri) \o <<": ">> \o h.api.err.msg

\* ------------------------------------------------------------------------
\* C17
\* ------------------------------------------------------------------------

\* uri is blt://<type>/<x> with x not empty, for one of the types
ReadsWithId(req, types) ==
  /\ req.kind = "readResource"
  /\ \E t \in types :
       IsPrefix(Uri(t) \o Slash, req.uri) /\ Len(req.uri) > Len(Uri(t)) + 1

\* C17: a read of blt://leaderboards/<x> or blt://rewards/<x> with x not
\* empty fails: it issues no outbound call and returns no content.
C17_CollectionOnlyRefusesId ==
  \A h \in Handled :
    ReadsWithId(h.req, CollectionTypes) =>
      /\ h.calls = <<>>
      /\ h.done => h.out.thrown

\* ------------------------------------------------------------------------
\* C18
\* ------------------------------------------------------------------------

\* C18: a submit_issue call whose repo_id, once the whitespace around it is
\* trimmed, is not a safe identifier is answered with a validation error and
\* issues no outbound call; a repo_id in the body of POST /issues matches
\* ^[a-zA-Z0-9_-]+$.
C18_RepoIdValidated ==
  \A h \in Handled :
    IsToolCall(h, "submit_issue") =>
      LET repo == Get(h.req.args.m, "repo_id") IN
      /\ (IsNonBlankString(repo) /\ ~AsciiSafe(Trim(repo.s))) =>
           /\ h.calls = <<>>
           /\ h.done => IsValidationErrorResult(h)
      /\ \A i \in 1..Len(h.calls) :
           "repo_id" \in DOMAIN h.calls[i].body.json =>
             AsciiSafe(h.calls[i].body.json.repo_id.s)

\* ------------------------------------------------------------------------
\* C19
\* ------------------------------------------------------------------------

\* The kind of the failure a tool call ended in: that of its outbound call,
\* or, with no call made, a validation failure of the selected tool (arguments
\* that are no object and an unknown tool are failures of no typed kind).
FailureKind(h) ==
  IF h.calls # <<>> THEN h.api.err.kind
  ELSE IF h.req.args.t \in {"object", "array"} /\ h.req.name \in ToolNames
    THEN "ValidationError"
  ELSE "Error"

LabelOf(kind, status) ==
  CASE kind = "ValidationError" -> <<"Validation error">>
    [] kind = "ApiTimeoutError" -> <<"Timeout error">>
    [] kind = "ApiHttpError"    -> <<"HTTP ", StatusStr(status), " error">>
    [] kind = "ApiNetworkError" -> <<"Network error">>
    [] OTHER                    -> <<"Error">>

AllLabels ==
  {LabelOf(k, 0) : k \in {"ValidationError", "ApiTimeoutError", "ApiNetworkError", "Error"}}
    \cup {LabelOf("ApiHttpError", s) : s \in ErrorStatuses}

\* C19: the text of a failed tool call starts with the label of its failure
\* kind, "Validation error", "Timeout error", "HTTP <s> error", "Network
\* error", or "Error" for anything else, then ": " and the message; it starts
\* with the label of no other kind.
C19_LabelByKind ==
  \A h \in Answered :
    (h.req.kind = "callTool" /\ h.out.result.isError = "true") =>
      LET label == LabelOf(FailureKind(h), h.api.err.status) IN
      /\ IsToolError(h, label)
      /\ \A other \in AllLabels \ {label} : ~IsToolError(h, other)
      /\ h.calls # <<>> => h.out.result.text = label \o <<": ">> \o h.api.err.msg

\* A tool call that timed out has been answered "Timeout error: ...".
C19_Witness ==
  \E h \in Answered :
    /\ h.req.kind = "callTool" /\ h.event = "abort"
    /\ IsToolError(h, <<"Timeout error">>)

\* ------------------------------------------------------------------------
\* C20
\* ------------------------------------------------------------------------

\* absent, null or a string
IsOptionalString(value) == value.t \in {"undefined", "null", "string"}

\* a string that, trimmed, is one of the allowed words
IsOneOf(value, words) == value.t = "string" /\ Trim(value.s) \in words

\* a string that, trimmed, is a safe identifier
IsSafeIdArg(value) == value.t = "string" /\ AsciiSafe(Trim(value.s))

\* coercible to a number that is not NaN and is above 0
IsPositiveNumber(value) ==
  /\ value.t \in {"number", "string"}
  /\ ToNumber(value).k \in {"finite", "inf"}
  /\ ToNumber(value).k = "finite" => ToNumber(value).v > 0

\* Every check the selected tool makes on its arguments passes.
ChecksPass(req) ==
  /\ req.args.t \in {"object", "array"}
  /\ LET m == req.args.m IN
     CASE req.name = "submit_issue" ->
            /\ IsNonBlankString(Get(m, "title"))
            /\ IsNonBlankString(Get(m, "description"))
            /\ IsOptionalString(Get(m, "repo_id"))
            /\ IsOneOf(Get(m, "severity"), validSeverities)
            /\ IsOneOf(Get(m, "type"), validTypes)
       [] req.name = "award_bacon" ->
            /\ IsSafeIdArg(Get(m, "contributor_id"))
            /\ IsPositiveNumber(Get(m, "points"))
            /\ IsNonBlankString(Get(m, "reason"))
       [] req.name = "update_issue_status" ->
            /\ IsSafeIdArg(Get(m, "issue_id"))
            /\ IsOneOf(Get(m, "status"), validStatuses)
            /\ IsOptionalString(Get(m, "comment"))
       [] req.name = "add_comment" ->
            /\ IsSafeIdArg(Get(m, "issue_id"))
            /\ IsNonBlankString(Get(m, "comment"))
       [] OTHER -> FALSE

\* One step: a tool call that is under way passed every check before it was
\* sent, and a tool request that fails a check is answered at once, with a
\* failure, no call having been issued for it and none being issued.
ChecksBeforeSending ==
  /\ \A c \in BagToSet(inflight') : c.req.kind = "callTool" => ChecksPass(c.req)
  /\ (outbox = <<>> /\ outbox' # <<>> /\ outbox'[1].req.kind = "callTool"
        /\ ~ChecksPass(outbox'[1].req)) =>
       /\ outbox'[1].calls = <<>>
       /\ outbox'[1].out.result.isError = "true"
       /\ inflight' = inflight

\* C20: validation precedes sending: every check of the selected tool on its
\* arguments (presence, type, allowed word, positivity, identifier safety) is
\* made before the outbound call is issued, and a request that fails one has
\* no outbound call issued for it, then or later.
C20_ValidationPrecedesSending == [][ChecksBeforeSending]_vars

\* award_bacon with points 0 has been refused, no call made.
C20_Witness ==
  \E h \in Answered :
    /\ IsToolCall(h, "award_bacon")
    /\ Get(h.req.args.m, "points") = Num(0)
    /\ IsValidationErrorResult(h)
    /\ h.calls = <<>>

\* ------------------------------------------------------------------------
\* C21
\* ------------------------------------------------------------------------

\* coercible to a finite number above 0
IsFinitePositive(value) ==
  /\ value.t \in {"number", "string"}
  /\ ToNumber(value).k = "finite"
  /\ ToNumber(value).v > 0

\* C21: award_bacon issues its outbound call only when points is coercible
\* to a finite number above 0: with points missing, null, not coercible to a
\* finite number (Infinity, a word), zero or negative, the call is answered
\* with a validation error and nothing is sent.
C21_PointsFinitePositive ==
  \A h \in Handled :
    (IsToolCall(h, "award_bacon") /\ ~IsFinitePositive(Get(h.req.args.m, "points"))) =>
      /\ h.calls = <<>>
      /\ h.done => IsValidationErrorResult(h)

\* ------------------------------------------------------------------------
\* C22
\* ------------------------------------------------------------------------

\* C22: assertOptionalString returns undefined exactly when the field is
\* absent or null; a value that is present and not null is treated as
\* assertRequiredString treats it: ValidationError when it is not a string or
\* is blank once trimmed, the trimmed string otherwise.
C22_OptionalLikeRequired ==
  \A c \in HelperCalls("assertOptionalString") :
    IF c.input.t \in {"undefined", "null"}
      THEN c.result.ok /\ c.result.val = Undefined
    ELSE IF c.input.t # "string" \/ Trim(c.input.s) = <<>>
      THEN ~c.result.ok /\ c.result.err.kind = "ValidationError"
    ELSE c.result.ok /\ c.result.val = Str(Trim(c.input.s))

\* ------------------------------------------------------------------------
\* C23
\* ------------------------------------------------------------------------

\* uri is blt://<t> or blt://<t>/<x> with x not empty, t one of the six types
HasDeclaredShape(uri) ==
  \E t \in ResourceTypes :
    \/ uri = Uri(t)
    \/ IsPrefix(Uri(t) \o Slash, uri) /\ Len(uri) > Len(Uri(t)) + 1

IssuesOneGet(h, endpoint) ==
  /\ Len(h.calls) = 1
  /\ h.calls[1].method = "GET"
  /\ h.calls[1].endpoint = endpoint

FailsWithoutCall(h) == h.calls = <<>> /\ (h.done => h.out.thrown)

\* C23: for T among issues, repos, contributors and workflows, a read of
\* blt://T issues one GET /T, a read of blt://T/<id> with a safe id issues one
\* GET /T/<id>, a read of blt://T/<x> with an unsafe x fails with no outbound
\* call; a URI of another shape or of an undeclared type fails with no
\* outbound call.
C23_ReadRouting ==
  \A h \in Handled :
    h.req.kind = "readResource" =>
      /\ \A t \in EntityTypes :
           /\ h.req.uri = Uri(t) => IssuesOneGet(h, Slash \o t)
           /\ ReadsWithId(h.req, {t}) =>
                LET x == SubSeq(h.req.uri, Len(Uri(t)) + 2, Len(h.req.uri)) IN
                IF AsciiSafe(x) THEN IssuesOneGet(h, Slash \o t \o Slash \o x)
                ELSE FailsWithoutCall(h)
      /\ ~HasDeclaredShape(h.req.uri) => FailsWithoutCall(h)

\* A read of blt://repos/a1 has been answered from GET /repos/a1.
C23_Witness ==
  \E h \in Answered :
    /\ h.req.kind = "readResource"
    /\ h.req.uri = Uri(s_repos) \o Slash \o id_a1
    /\ h.api.ok /\ ~h.out.thrown
    /\ h.calls[1].endpoint = Slash \o s_repos \o Slash \o id_a1

\* ------------------------------------------------------------------------
\* C24
\* ------------------------------------------------------------------------

\* issue_id is a safe identifier as given
HasSafeIssueId(h) ==
  /\ Get(h.req.args.m, "issue_id").t = "string"
  /\ AsciiSafe(Get(h.req.args.m, "issue_id").s)

IssuePath(h) == Slash \o s_issues \o Slash \o Get(h.req.args.m, "issue_id").s

IssuesOne(h, method, endpoint) ==
  /\ Len(h.calls) = 1
  /\ h.calls[1].method = method
  /\ h.calls[1].endpoint = endpoint
  /\ h.calls[1].body.present

\* C24: a valid update_issue_status call (safe issue_id i, an allowed
\* status, a comment that is a string when given) issues one PATCH /issues/<i>
\* whose body has the status, and a comment only if one was supplied (then the
\* supplied one, trimmed); a valid add_comment call issues one
\* POST /issues/<i>/comments whose body is the comment alone; a status outside
\* the allowed set gives a validation error and no call.
C24_IssueToolsRouting ==
  \A h \in Handled :
    /\ (IsToolCall(h, "update_issue_status") /\ HasSafeIssueId(h)
          /\ Get(h.req.args.m, "status").t = "string"
          /\ Get(h.req.args.m, "status").s \in
               {s_open, s_in_progress, s_resolved, s_closed, s_wont_fix}
          /\ IsOptionalString(Get(h.req.args.m, "comment"))) =>
         LET comment == Get(h.req.args.m, "comment") IN
         /\ IssuesOne(h, "PATCH", IssuePath(h))
         /\ DOMAIN h.calls[1].body.json \in {{"status"}, {"status", "comment"}}
         /\ h.calls[1].body.json.status = Get(h.req.args.m, "status")
         /\ "comment" \in DOMAIN h.calls[1].body.json =>
              /\ IsNonBlankString(comment)
              /\ h.calls[1].body.json.comment = Str(Trim(comment.s))
    /\ (IsToolCall(h, "add_comment") /\ HasSafeIssueId(h)
          /\ IsNonBlankString(Get(h.req.args.m, "comment"))) =>
         /\ IssuesOne(h, "POST", IssuePath(h) \o Slash \o s_comments)
         /\ h.calls[1].body.json =
              [comment |-> Str(Trim(Get(h.req.args.m, "comment").s))]
    /\ (IsToolCall(h, "update_issue_status")
          /\ Get(h.req.args.m, "status").t = "string"
          /\ Trim(Get(h.req.args.m, "status").s) \notin
               {s_open, s_in_progress, s_resolved, s_closed, s_wont_fix}) =>
         /\ h.calls = <<>>
         /\ h.done => IsValidationErrorResult(h)

\* update_issue_status with a comment has been answered from its PATCH.
C24_Witness ==
  \E h \in Answered :
    /\ IsToolCall(h, "update_issue_status")
    /\ Get(h.req.args.m, "comment") = Str(txt_x)
    /\ h.api.ok
    /\ h.calls[1].method = "PATCH"
    /\ h.calls[1].body.json.comment = Str(txt_x)

\* ------------------------------------------------------------------------
\* C25
\* ------------------------------------------------------------------------

HasJsonHeaders(f) ==
  /\ {"ContentType", "Accept"} \subseteq DOMAIN f.headers
  /\ f.headers.ContentType = <<"application/json">>
  /\ f.headers.Accept = <<"application/json">>

BearerIffKey(f) ==
  /\ "Authorization" \in DOMAIN f.headers <=> config.key # ""
  /\ "Authorization" \in DOMAIN f.headers
       => f.headers.Authorization = <<"Bearer ", config.key>>

\* C25: every outbound request carries Content-Type and Accept
\* application/json, carries Authorization: Bearer <key> exactly when the
\* configured key is non-empty, and carries a body only when its method is
\* not GET; the requests of readResource and of plan_remediation are GETs
\* without a body.
C25_HeadersAndBody ==
  \A h \in Handled : \A i \in 1..Len(h.calls) :
    LET f == h.calls[i] IN
    /\ HasJsonHeaders(f)
    /\ BearerIffKey(f)
    /\ f.body.present => f.method # "GET"
    /\ (h.req.kind = "readResource" \/ IsRemediation(h))
         => f.method = "GET" /\ ~f.body.present

\* A keyed deployment with a body-carrying POST and a bare GET under way.
C25_Witness ==
  /\ config.key # ""
  /\ \E f \in AllFetches :
       f.method = "POST" /\ f.body.present /\ "Authorization" \in DOMAIN f.headers
  /\ \E h \in Handled :
       /\ h.req.kind = "readResource" /\ h.calls # <<>>
       /\ ~h.calls[1].body.present

\* ------------------------------------------------------------------------
\* C26
\* ------------------------------------------------------------------------

PromptNames == {"triage_vulnerability", "plan_remediation", "review_contribution"}

MissingOrBlank(args, field) ==
  \/ args.t # "object"
  \/ field \notin DOMAIN args.m
  \/ \A i \in 1..Len(args.m[field].s) : args.m[field].s[i] \in WhiteSpace \cup LineTerminators

\* The failure kind getPrompt is to end with for this request, "" when it is
\* to return a message.
PromptFailure(req) ==
  IF req.name \notin PromptNames THEN "Error"
  ELSE IF \/ /\ req.name = "triage_vulnerability"
             /\ MissingOrBlank(req.args, "vulnerability_description")
          \/ /\ req.name = "review_contribution"
             /\ MissingOrBlank(req.args, "contribution_id")
          \/ /\ req.name = "plan_remediation"
             /\ \/ MissingOrBlank(req.args, "issue_id")
                \/ ~AsciiSafe(Trim(req.args.m.issue_id.s))
    THEN "ValidationError"
  ELSE ""

TimersOnlyWhileFetching(calls) ==
  \A c \in BagToSet(calls) : c.timer = "armed" <=> c.phase = "fetch"

\* A call ends in one step with one answer, and ends as a timeout only when
\* its fetch was still pending.
EndsOnce(c) ==
  /\ inflight' = inflight (-) SetToBag({c})
  /\ BagCardinality(inflight') = BagCardinality(inflight) - 1
  /\ outbox = <<>> /\ Len(outbox') = 1
  /\ outbox'[1].calls = <<c.fetch>>
  /\ (outbox'[1].event = "abort" \/ outbox'[1].api.err.kind = "ApiTimeoutError")
       => c.phase = "fetch" /\ c.timer = "armed"

\* C27: the timer of a makeApiRequest call is cleared whenever its fetch
\* settles, so a timer is armed only while its fetch is pending, a call whose
\* fetch has resolved never ends as a timeout, and every call ends exactly
\* once with one outcome.
C27_TimerCleared ==
  [][/\ TimersOnlyWhileFetching(inflight')
     /\ BagCardinality(inflight') < BagCardinality(inflight)
          => \E c \in BagToSet(inflight) : EndsOnce(c)
     /\ (outbox' # outbox /\ outbox' # <<>> /\ outbox'[1].calls # <<>>)
          => BagCardinality(inflight') = BagCardinality(inflight) - 1]_vars

\* The fetch of a call has resolved and its body has then been read: the
\* call ended with its data, its timer cleared, not with a timeout.
C27_Witness ==
  /\ outbox # <<>> /\ outbox[1].event = "parsed" /\ outbox[1].api.ok
  /\ \E c \in BagToSet(inflight) : c.phase = "body" /\ c.timer = "cleared"

\* ------------------------------------------------------------------------
\* C28
\* ------------------------------------------------------------------------

\* whitespace around a safe core
PaddedSafe(x) == x # Trim(x) /\ AsciiSafe(Trim(x))

ReadsPaddedId(req, types) ==
  /\ req.kind = "readResource"
  /\ \E t \in types :
       /\ IsPrefix(Uri(t) \o Slash, req.uri)
       /\ PaddedSafe(SubSeq(req.uri, Len(Uri(t)) + 2, Len(req.uri)))

TrimmedInToolsOnly(types) ==
  \A h \in Handled :
    /\ (HasIdArg(h.req) /\ h.calls # <<>>) =>
         /\ Len(Segments(h.calls[1].endpoint)) >= 3
         /\ Segments(h.calls[1].endpoint)[3] = Trim(IdArg(h.req))
    /\ (HasIdArg(h.req) /\ PaddedSafe(IdArg(h.req)) /\ h.done
          /\ (IsRemediation(h) \/ ChecksPass(h.req))) => h.calls # <<>>
    /\ ReadsPaddedId(h.req, types) =>
         h.done /\ h.calls = <<>> /\ h.out.thrown
    /\ \A i \in 1..Len(h.calls) :
         Len(Segments(h.calls[i].endpoint)) >= 3
           => AsciiSafe(Segments(h.calls[i].endpoint)[3])

\* C28: contributor_id and issue_id of the tools and the issue_id of
\* plan_remediation are trimmed before identifier validation: an identifier
\* with whitespace around a safe core is accepted and the outbound path holds
\* the trimmed core, whereas the same identifier in a resource URI is
\* rejected; the identifier that reaches a path is safe in both cases.
C28_TrimmedInToolsOnly == TrimmedInToolsOnly(ResourceTypes)

\* ------------------------------------------------------------------------
\* C29
\* ------------------------------------------------------------------------

TypedKinds == {"ValidationError", "ApiTimeoutError", "ApiHttpError", "ApiNetworkError"}

\* C29: every error readResource raises is a plain Error: a failed
\* identifier validation, a timeout, an HTTP error, a network failure and an
\* unknown resource type are never raised under their typed kind, carry no
\* status, and differ in their message text only.
C29_ReadErasesKind ==
  \A h \in Answered :
    h.req.kind = "readResource" =>
      /\ (h.calls # <<>> /\ ~h.api.ok) => h.out.thrown
      /\ h.out.thrown =>
           /\ h.out.err.kind \notin TypedKinds
           /\ h.out.err = GenericError(h.out.err.msg)

\* A read has failed by HTTP 404: the cause is typed, the error raised plain.
C29_Witness ==
  \E h \in Answered :
    /\ h.req.kind = "readResource"
    /\ h.api.err.kind = "ApiHttpError" /\ h.api.err.status = 404
    /\ h.out.thrown /\ h.out.err.kind = "Error"

\* ------------------------------------------------------------------------
\* C30
\* ------------------------------------------------------------------------

CompletedCall(h) == h.calls # <<>> /\ h.api.ok

====
